---------------------------- MODULE Spec2Model ----------------------------
(***************************************************************************)
(* Model of .agent/scratch/extract_adiga_table.py: the Rate Normalizer     *)
(* (parse_competition_rate) and the Table Extractor (TableExtractor, an    *)
(* html.parser.HTMLParser whose handlers are called once per token).       *)
(*                                                                         *)
(* Text is a sequence of characters.  An ASCII character is the string of  *)
(* that character; the Korean characters of the patterns are written by    *)
(* name, because the module is ASCII:                                      *)
(*   "hak" "nyeon" "do"  = 학 년 도      "jeon" "hyeong" = 전 형           *)
(*   "mo" "jip" "dan" "wi" = 모 집 단 위  "note" = ※                       *)
(***************************************************************************)
EXTENDS Integers, Sequences, FiniteSets, TLC

VARIABLES
    records,                 \* self.records
    current_year,            \* self.current_year
    current_admission_type,  \* self.current_admission_type
    in_table,                \* self.in_table
    in_tbody,                \* self.in_tbody
    in_row,                  \* self.in_row
    in_cell,                 \* self.in_cell
    in_span,                 \* self.in_span
    in_p,                    \* self.in_p
    current_row,             \* self.current_row
    cell_text,               \* self.cell_text
    p_text,                  \* self.p_text
    is_header_cell,          \* self.is_header_cell
    raised,                  \* an exception escaped feed(): the run is over
    doc,                     \* the class of document being fed (never changes)
    rate_str,                \* argument of a direct call of parse_competition_rate
    rate_out,                \* its outcome, or Pending before the call
    inst,                    \* the TableExtractor objects of two concurrent calls
    docs,                    \* the document each call was given (never changes)
    pos                      \* how many tokens of its document each call has fed

parser == <<records, current_year, current_admission_type, in_table, in_tbody,
            in_row, in_cell, in_span, in_p, current_row, cell_text, p_text,
            is_header_cell, raised>>

vars == <<records, current_year, current_admission_type, in_table, in_tbody,
          in_row, in_cell, in_span, in_p, current_row, cell_text, p_text,
          is_header_cell, raised, doc, rate_str, rate_out, inst, docs, pos>>

\* the state of two concurrent calls of extract_tables_from_html
calls == <<inst, docs, pos>>

----------------------------------------------------------------------------
(* Text primitives: str.strip, re.sub(r'\s+', ' ', .), str.join, `in`.      *)

IsSpace(c) == c \in {" ", "\t", "\n"}

IsDigit(c) == c \in {"0", "1", "2", "3", "4", "5", "6", "7", "8", "9"}

DigitVal(c) ==
    CASE c = "0" -> 0 [] c = "1" -> 1 [] c = "2" -> 2 [] c = "3" -> 3
      [] c = "4" -> 4 [] c = "5" -> 5 [] c = "6" -> 6 [] c = "7" -> 7
      [] c = "8" -> 8 [] c = "9" -> 9

RECURSIVE LStrip(_)
LStrip(s) == IF s /= <<>> /\ IsSpace(Head(s)) THEN LStrip(Tail(s)) ELSE s

RECURSIVE RStrip(_)
RStrip(s) ==
    IF s /= <<>> /\ IsSpace(s[Len(s)]) THEN RStrip(SubSeq(s, 1, Len(s) - 1)) ELSE s

Strip(s) == RStrip(LStrip(s))

\* re.sub(r'\s+', ' ', s): every maximal whitespace run becomes one space
RECURSIVE CollapseWs(_)
CollapseWs(s) ==
    IF s = <<>> THEN <<>>
    ELSE IF IsSpace(Head(s))
         THEN <<" ">> \o CollapseWs(LStrip(s))
         ELSE <<Head(s)>> \o CollapseWs(Tail(s))

\* sub in s
Contains(s, sub) ==
    \E i \in 1..(Len(s) - Len(sub) + 1) : SubSeq(s, i, i + Len(sub) - 1) = sub

\* " ".join(row)
RECURSIVE Join(_)
Join(row) ==
    IF row = <<>> THEN <<>>
    ELSE IF Len(row) = 1 THEN row[1]
    ELSE row[1] \o <<" ">> \o Join(Tail(row))

----------------------------------------------------------------------------
(* parse_competition_rate                                                   *)

Pending == [kind |-> "pending", n |-> 0, s |-> 0]
Absent  == [kind |-> "none", n |-> 0, s |-> 0]       \* return None
Raised  == [kind |-> "raise", n |-> 0, s |-> 0]      \* ValueError escapes

RECURSIVE Pow10(_)
Pow10(k) == IF k = 0 THEN 1 ELSE 10 * Pow10(k - 1)

\* the float n / 10^s, written with the fewest fractional digits
RECURSIVE Value(_, _)
Value(n, s) ==
    IF s > 0 /\ n % 10 = 0 THEN Value(n \div 10, s - 1)
    ELSE [kind |-> "value", n |-> n, s |-> s]

IsNumChar(c) == IsDigit(c) \/ c = "."

\* the characters of s that are digits, read as one integer
RECURSIVE DigitsOf(_, _)
DigitsOf(s, acc) ==
    IF s = <<>> THEN acc
    ELSE IF IsDigit(Head(s)) THEN DigitsOf(Tail(s), 10 * acc + DigitVal(Head(s)))
    ELSE DigitsOf(Tail(s), acc)

DotAt(s) == IF \E i \in 1..Len(s) : s[i] = "." THEN CHOOSE i \in 1..Len(s) : s[i] = "." ELSE 0

\* float(s) succeeds on a string of digits and dots iff it has at most one dot
\* and at least one digit
FloatOk(s) ==
    /\ s /= <<>>
    /\ \A i \in 1..Len(s) : IsNumChar(s[i])
    /\ Cardinality({i \in 1..Len(s) : s[i] = "."}) <= 1
    /\ \E i \in 1..Len(s) : IsDigit(s[i])

\* float(s) for such a string, as mantissa and number of fractional digits
FloatN(s) == DigitsOf(s, 0)
FloatS(s) == IF DotAt(s) = 0 THEN 0 ELSE Len(s) - DotAt(s)

ColonAt(s) == IF \E i \in 1..Len(s) : s[i] = ":" THEN CHOOSE i \in 1..Len(s) : s[i] = ":" ELSE 0

\* re.match(r'^([\d.]+):([\d.]+)$', s)
RateMatch(s) ==
    /\ ColonAt(s) > 1
    /\ ColonAt(s) < Len(s)
    /\ \A i \in 1..Len(s) : i /= ColonAt(s) => IsNumChar(s[i])

Group1(s) == SubSeq(s, 1, ColonAt(s) - 1)
Group2(s) == SubSeq(s, ColonAt(s) + 1, Len(s))

Abs(x) == IF x < 0 THEN 0 - x ELSE x

\* round() replaced by truncation
Round2Floor(p, q) == {(100 * p) \div q}

\* round(p / q, 2) in hundredths: the integers nearest to 100 * p / q.  A
\* quotient exactly half way between two hundredths is rounded by the binary
\* value of the float quotient, which lies on either side: both neighbours.
Round2(p, q) ==
    {h \in {(100 * p) \div q, (100 * p) \div q + 1} : 2 * Abs(100 * p - h * q) <= q}

\* the fallback written `float(...) or None`: a zero is taken for no value
FloatFallbackFalsy(t) ==
    IF FloatOk(t) /\ FloatN(t) /= 0 THEN {Value(FloatN(t), FloatS(t))} ELSE {Absent}

\* float(rate_str.strip()) of the fallback (lines 57-60)
FloatFallback(t) ==
    IF FloatOk(t) THEN {Value(FloatN(t), FloatS(t))} ELSE {Absent}

\* The set of outcomes of parse_competition_rate(rate_str): one element, or
\* two at a rounding tie.
parse_competition_rate(rate_string) ==
    LET t == Strip(rate_string) IN
    IF rate_string = <<>> \/ t = <<>> THEN {Absent}
    ELSE IF RateMatch(t)
         THEN IF ~FloatOk(Group1(t)) \/ ~FloatOk(Group2(t)) THEN {Raised}
              ELSE IF FloatN(Group2(t)) /= 0
                   THEN {Value(h, 2) :
                           h \in Round2(FloatN(Group1(t)) * Pow10(FloatS(Group2(t))),
                                        FloatN(Group2(t)) * Pow10(FloatS(Group1(t))))}
                   ELSE FloatFallback(t)
         ELSE FloatFallback(t)

----------------------------------------------------------------------------
(* Direct calls of the Rate Normalizer on every short string                *)

MaxRateLen == 6

RateChars == {"0", "1", "5", ".", ":", " "}

RateStrings == UNION {[1..n -> RateChars] : n \in 0..MaxRateLen}

ParserInit ==
    /\ records = <<>>
    /\ current_year = <<>>
    /\ current_admission_type = <<>>
    /\ in_table = FALSE
    /\ in_tbody = FALSE
    /\ in_row = FALSE
    /\ in_cell = FALSE
    /\ in_span = FALSE
    /\ in_p = FALSE
    /\ current_row = <<>>
    /\ cell_text = <<>>
    /\ p_text = <<>>
    /\ is_header_cell = FALSE
    /\ raised = FALSE

\* no concurrent calls are running
NoCalls == inst = <<>> /\ docs = <<>> /\ pos = <<>>

RateInit ==
    /\ ParserInit
    /\ NoCalls
    /\ doc = "none"
    /\ rate_str \in RateStrings
    /\ rate_out = Pending

Normalize ==
    /\ rate_out = Pending
    /\ rate_out' \in parse_competition_rate(rate_str)
    /\ UNCHANGED <<rate_str, doc, parser, calls>>

RateNext == Normalize

SpecRate == RateInit /\ [][RateNext]_vars

----------------------------------------------------------------------------
(* Patterns and keywords of the Table Extractor                             *)

Hak == <<"hak", "nyeon", "do">>                          \* 학년도

\* the four digits at s[j..j+3], or <<>> when they are not four digits
Digits4(s, j) ==
    IF j >= 1 /\ j + 3 <= Len(s) /\ \A k \in j..(j + 3) : IsDigit(s[k])
    THEN SubSeq(s, j, j + 3) ELSE <<>>

\* re.search(r'\[(\d{4})학년도\]', s) matches at position i
RowYearAt(s, i) ==
    /\ i + 8 <= Len(s)
    /\ s[i] = "["
    /\ Digits4(s, i + 1) /= <<>>
    /\ SubSeq(s, i + 5, i + 7) = Hak
    /\ s[i + 8] = "]"

RowYearMatch(s) == \E i \in 1..Len(s) : RowYearAt(s, i)

\* the group taken two characters late: a two-digit year
RowYearShort(s) ==
    LET i == CHOOSE k \in 1..Len(s) :
                 RowYearAt(s, k) /\ \A m \in 1..(k - 1) : ~RowYearAt(s, m)
    IN  SubSeq(s, i + 3, i + 4)

\* group(1) of the leftmost match
RowYear(s) ==
    LET i == CHOOSE k \in 1..Len(s) :
                 RowYearAt(s, k) /\ \A m \in 1..(k - 1) : ~RowYearAt(s, m)
    IN  SubSeq(s, i + 1, i + 4)

\* first position at or after k that holds no whitespace
RECURSIVE SkipWs(_, _)
SkipWs(s, k) == IF k <= Len(s) /\ IsSpace(s[k]) THEN SkipWs(s, k + 1) ELSE k

\* \d{4}\]?\s*학년도 matches with its digits at j
PTailAt(s, j) ==
    /\ Digits4(s, j) /= <<>>
    /\ LET k == IF j + 4 <= Len(s) /\ s[j + 4] = "]" THEN j + 5 ELSE j + 4
           m == SkipWs(s, k)
       IN  m + 2 <= Len(s) /\ SubSeq(s, m, m + 2) = Hak

\* re.search(r'\[?(\d{4})\]?\s*학년도', s) matches at position i
PYearAt(s, i) == (s[i] = "[" /\ PTailAt(s, i + 1)) \/ PTailAt(s, i)

PYearMatch(s) == \E i \in 1..Len(s) : PYearAt(s, i)

\* the group opened one character early: five characters
PYearLong(s) ==
    LET i == CHOOSE k \in 1..Len(s) :
                 PYearAt(s, k) /\ \A m \in 1..(k - 1) : ~PYearAt(s, m)
    IN  SubSeq(s, i, i + 4)

PYear(s) ==
    LET i == CHOOSE k \in 1..Len(s) :
                 PYearAt(s, k) /\ \A m \in 1..(k - 1) : ~PYearAt(s, m)
    IN  IF s[i] = "[" THEN SubSeq(s, i + 1, i + 4) ELSE SubSeq(s, i, i + 3)

JeonHyeong == <<"jeon", "hyeong">>                       \* 전형

\* header_keywords (line 177)
header_keywords ==
    { <<"mo", "jip", "dan", "wi">>,          \* 모집단위
      <<"mo", "jip", "in", "won">>,          \* 모집인원
      <<"gyeong", "jaeng", "ryul">>,         \* 경쟁률
      <<"chung", "won">>,                    \* 충원
      <<"c", "u", "t">>,                     \* cut
      <<"gyo", "gwa", "mok">>,               \* 교과목
      <<"5", "0", "%">>,                     \* 50%
      <<"7", "0", "%">> }                    \* 70%

\* the markers of a warning row (line 182)
warning_marks ==
    { <<"note">>,                                                   \* ※
      <<"dae", "hak", "byeol">>,                                    \* 대학별
      <<"bi", "gyo", "hal", " ", "su", " ", "eop", "seup", "ni", "da">> }  \* 비교할 수 없습니다

\* "rgb(229, 229, 229)" and "background:" (line 108)
StyleRgb ==
    <<"r", "g", "b", "(", "2", "2", "9", ",", " ", "2", "2", "9", ",", " ",
      "2", "2", "9", ")">>
StyleBackground == <<"b", "a", "c", "k", "g", "r", "o", "u", "n", "d", ":">>

\* the literal text a cell ignores (line 152)
Nbsp == <<"&", "n", "b", "s", "p", ";">>

----------------------------------------------------------------------------
(* TableExtractor._process_row                                              *)

MinCells == 6

IsYearRow(row)    == RowYearMatch(Join(row))
IsTypeRow(row)    == \E i \in 1..Len(row) : Contains(row[i], JeonHyeong)
IsHeaderRow(row)  == \E kw \in header_keywords : Contains(Join(row), kw)
IsWarningRow(row) == \E w \in warning_marks : Contains(Join(row), w)

\* the last cell that contains 전형: the loop of lines 170-173 without its break
LastTypeCell(row) ==
    row[CHOOSE i \in 1..Len(row) :
            /\ Contains(row[i], JeonHyeong)
            /\ \A j \in (i + 1)..Len(row) : ~Contains(row[j], JeonHyeong)]

\* the first cell, in cell order, that contains 전형
FirstTypeCell(row) ==
    row[CHOOSE i \in 1..Len(row) :
            /\ Contains(row[i], JeonHyeong)
            /\ \A j \in 1..(i - 1) : ~Contains(row[j], JeonHyeong)]

CellOr(row, i) == IF Len(row) >= i THEN row[i] ELSE <<>>

\* AdmissionRecord(...) of lines 191-201
MakeRecord(year, type, row, rate) ==
    [ year             |-> year,
      admission_type   |-> type,
      department       |-> CellOr(row, 1),
      quota            |-> CellOr(row, 2),
      competition_rate |-> rate,
      waitlist_rank    |-> CellOr(row, 4),
      cut_50           |-> CellOr(row, 5),
      cut_70           |-> CellOr(row, 6),
      subjects         |-> CellOr(row, 7) ]

\* record.department and record.department not in ["", " "]
DepartmentOk(d) == d /= <<>> /\ d /= <<" ">>

\* the column-header rule left out
RowKindNoHeader(row) ==
    IF row = <<>> THEN "empty"
    ELSE IF IsYearRow(row) THEN "year"
    ELSE IF IsTypeRow(row) THEN "type"
    ELSE IF IsWarningRow(row) THEN "warning"
    ELSE IF Len(row) >= MinCells THEN "data"
    ELSE "short"

\* the admission-type rule tried before the year-marker rule
RowKindTypeFirst(row) ==
    IF row = <<>> THEN "empty"
    ELSE IF IsTypeRow(row) THEN "type"
    ELSE IF IsYearRow(row) THEN "year"
    ELSE IF IsHeaderRow(row) THEN "header"
    ELSE IF IsWarningRow(row) THEN "warning"
    ELSE IF Len(row) >= MinCells THEN "data"
    ELSE "short"

\* the column-header rule tried before the admission-type rule
RowKindHeaderFirst(row) ==
    IF row = <<>> THEN "empty"
    ELSE IF IsYearRow(row) THEN "year"
    ELSE IF IsHeaderRow(row) THEN "header"
    ELSE IF IsTypeRow(row) THEN "type"
    ELSE IF IsWarningRow(row) THEN "warning"
    ELSE IF Len(row) >= MinCells THEN "data"
    ELSE "short"

\* The rule of _process_row that handles the row: the first that matches, in
\* the order of the code (lines 157, 164, 169, 178, 182, 186).
RowKind(row) ==
    IF row = <<>> THEN "empty"
    ELSE IF IsYearRow(row) THEN "year"
    ELSE IF IsTypeRow(row) THEN "type"
    ELSE IF IsHeaderRow(row) THEN "header"
    ELSE IF IsWarningRow(row) THEN "warning"
    ELSE IF Len(row) >= MinCells THEN "data"
    ELSE "short"

\* self.records.insert(0, record)
EmitFront(recs, rec) == <<rec>> \o recs

\* self.records.append(record)
Emit(recs, rec) == Append(recs, rec)

\* _process_row on the row `row`: it writes records, current_year and
\* current_admission_type, or lets the ValueError of the normalizer escape
ProcessRow(row) ==
    CASE RowKind(row) = "year" ->
            /\ current_year' = RowYear(Join(row))
            /\ UNCHANGED <<records, current_admission_type, raised>>
      [] RowKind(row) = "type" ->
            /\ current_admission_type' = Strip(FirstTypeCell(row))
            /\ UNCHANGED <<records, current_year, raised>>
      [] RowKind(row) = "data" ->
            \E rate \in parse_competition_rate(CellOr(row, 3)) :
                IF rate = Raised
                THEN /\ raised' = TRUE
                     /\ UNCHANGED <<records, current_year, current_admission_type>>
                ELSE /\ records' =
                            IF DepartmentOk(CellOr(row, 1))
                            THEN Emit(records,
                                      MakeRecord(current_year, current_admission_type,
                                                 row, rate))
                            ELSE records
                     /\ UNCHANGED <<current_year, current_admission_type, raised>>
      [] OTHER ->
            UNCHANGED <<records, current_year, current_admission_type, raised>>

----------------------------------------------------------------------------
(* The handlers HTMLParser.feed calls, one call per token                   *)

NoValue == <<"None">>       \* a style attribute written without a value

\* row_index and header_rows_count are assigned (lines 84-85, 93-94, 127) and
\* read nowhere; they have no variable here.

handle_starttag(tag, style) ==
    IF tag = "table"
    THEN /\ in_table' = TRUE
         /\ UNCHANGED <<records, current_year, current_admission_type, in_tbody,
                        in_row, in_cell, in_span, in_p, current_row, cell_text,
                        p_text, is_header_cell, raised>>
    ELSE IF tag = "tbody"
    THEN /\ in_tbody' = TRUE
         /\ UNCHANGED <<records, current_year, current_admission_type, in_table,
                        in_row, in_cell, in_span, in_p, current_row, cell_text,
                        p_text, is_header_cell, raised>>
    ELSE IF tag = "tr"
    THEN /\ in_row' = TRUE
         /\ current_row' = <<>>
         /\ cell_text' = <<>>
         /\ UNCHANGED <<records, current_year, current_admission_type, in_table,
                        in_tbody, in_cell, in_span, in_p, p_text, is_header_cell,
                        raised>>
    ELSE IF tag = "td" /\ in_row
    THEN /\ in_cell' = TRUE
         /\ cell_text' = <<>>
         /\ IF style = NoValue
            THEN \* `"rgb(229, 229, 229)" in None` raises TypeError
                 /\ raised' = TRUE
                 /\ UNCHANGED is_header_cell
            ELSE /\ is_header_cell' =
                        (Contains(style, StyleRgb) \/ Contains(style, StyleBackground))
                 /\ UNCHANGED raised
         /\ UNCHANGED <<records, current_year, current_admission_type, in_table,
                        in_tbody, in_row, in_span, in_p, current_row, p_text>>
    ELSE IF tag = "span" /\ in_cell
    THEN /\ in_span' = TRUE
         /\ UNCHANGED <<records, current_year, current_admission_type, in_table,
                        in_tbody, in_row, in_cell, in_p, current_row, cell_text,
                        p_text, is_header_cell, raised>>
    ELSE IF tag = "p"
    THEN /\ in_p' = TRUE
         /\ p_text' = <<>>
         /\ UNCHANGED <<records, current_year, current_admission_type, in_table,
                        in_tbody, in_row, in_cell, in_span, current_row, cell_text,
                        is_header_cell, raised>>
    ELSE UNCHANGED parser

handle_endtag(tag) ==
    IF tag = "table"
    THEN /\ in_table' = FALSE
         /\ UNCHANGED <<records, current_year, current_admission_type, in_tbody,
                        in_row, in_cell, in_span, in_p, current_row, cell_text,
                        p_text, is_header_cell, raised>>
    ELSE IF tag = "tbody"
    THEN /\ in_tbody' = FALSE
         /\ UNCHANGED <<records, current_year, current_admission_type, in_table,
                        in_row, in_cell, in_span, in_p, current_row, cell_text,
                        p_text, is_header_cell, raised>>
    ELSE IF tag = "tr" /\ in_row
    THEN /\ in_row' = FALSE
         /\ ProcessRow(current_row)
         /\ UNCHANGED <<in_table, in_tbody, in_cell, in_span, in_p, current_row,
                        cell_text, p_text, is_header_cell>>
    ELSE IF tag = "td" /\ in_cell
    THEN /\ current_row' = Append(current_row, CollapseWs(Strip(cell_text)))
         /\ in_cell' = FALSE
         /\ is_header_cell' = FALSE
         /\ UNCHANGED <<records, current_year, current_admission_type, in_table,
                        in_tbody, in_row, in_span, in_p, cell_text, p_text, raised>>
    ELSE IF tag = "span"
    THEN /\ in_span' = FALSE
         /\ UNCHANGED <<records, current_year, current_admission_type, in_table,
                        in_tbody, in_row, in_cell, in_p, current_row, cell_text,
                        p_text, is_header_cell, raised>>
    ELSE IF tag = "p"
    THEN /\ current_year' =
                IF p_text /= <<>> /\ ~in_table /\ PYearMatch(p_text)
                THEN PYear(p_text) ELSE current_year
         /\ in_p' = FALSE
         /\ UNCHANGED <<records, current_admission_type, in_table, in_tbody, in_row,
                        in_cell, in_span, current_row, cell_text, p_text,
                        is_header_cell, raised>>
    ELSE UNCHANGED parser

handle_data(data) ==
    /\ p_text' = IF in_p THEN p_text \o Strip(data) ELSE p_text
    /\ cell_text' =
            IF in_cell /\ Strip(data) /= <<>> /\ Strip(data) /= Nbsp
            THEN cell_text \o Strip(data) ELSE cell_text
    /\ UNCHANGED <<records, current_year, current_admission_type, in_table,
                   in_tbody, in_row, in_cell, in_span, in_p, current_row,
                   is_header_cell, raised>>

----------------------------------------------------------------------------
(* The documents fed to the extractor.  feed() calls one handler per token; *)
(* the tokens of a document are any sequence of tags and text the class of  *)
(* the document admits, well nested or not.                                 *)

MaxRecords == 2        \* records extracted before the document is cut off
MaxCells == 7          \* cells closed in one row
MaxTextLen == 2        \* characters a buffer holds after a second fragment
MaxTextCells == 2      \* cells with text in one row

FragA     == <<" ", "A", " ">>                               \* " A "
FragAA    == <<"A", " ", "\n", "B">>                         \* "A \nB"
FragSp    == <<" ">>
FragY24   == <<"[", "2", "0", "2", "4", "hak", "nyeon", "do", "]">>   \* [2024학년도]
FragY25   == <<"[", "2", "0", "2", "5", "hak", "nyeon", "do", "]">>   \* [2025학년도]
FragPY    == <<"2", "0", "2", "6", " ", "hak", "nyeon", "do">>        \* 2026 학년도
FragType  == <<"S", "jeon", "hyeong">>                       \* S전형
FragTypeK == <<"K", "jeon", "hyeong">>                       \* K전형
FragCut   == <<"c", "u", "t">>                               \* cut
FragNote  == <<"note">>                                      \* ※
FragRate  == <<"1", ":", "5">>                               \* 1:5
FragBad   == <<".", ":", "1">>                               \* .:1

\* What a document of class d is made of.  "kinds" documents hold rows of
\* every kind, with text in the department and rate columns;
\* "columns" documents hold plain text in any column; "context" documents
\* hold several data rows between marker and header rows; "types" documents
\* hold rows naming one or two admission types; "markup" documents hold every
\* tag and style, and paragraphs, around a little text.
Classes == {"kinds", "columns", "context", "types", "markup"}

Tags(d) ==
    CASE d = "kinds"   -> {"tr", "td"}
      [] d = "columns" -> {"tr", "td"}
      [] d = "context" -> {"tr", "td"}
      [] d = "types"   -> {"tr", "td"}
      [] d = "markup"  -> {"table", "tbody", "tr", "td", "span", "p", "div"}

Styles(d) ==
    IF d = "markup" THEN {<<>>, StyleBackground, StyleRgb, NoValue} ELSE {<<>>}

\* the text fragments found inside cells
CellFrags(d) ==
    CASE d = "kinds"   -> {FragA, FragSp, Nbsp, FragY24, FragType, FragCut, FragNote,
                           FragRate, FragBad}
      [] d = "columns" -> {FragA, FragAA, FragRate}
      [] d = "context" -> {FragA, FragY24, FragY25, FragType, FragCut}
      [] d = "types"   -> {FragA, FragType, FragTypeK}
      [] d = "markup"  -> {FragA, FragY24, FragType}

\* the text fragments found inside paragraphs
ParaFrags(d) ==
    CASE d = "kinds"   -> {}
      [] d = "columns" -> {}
      [] d = "context" -> {}
      [] d = "types"   -> {}
      [] d = "markup"  -> {FragA, FragPY}

\* the columns (0-based) whose cells hold text
TextCols(d) ==
    CASE d = "kinds"   -> {0, 2}
      [] d = "columns" -> 0..MaxCells
      [] d = "context" -> {0}
      [] d = "types"   -> {0, 1}
      [] d = "markup"  -> {0}

\* the cells closed in one row
RowCells(d) == IF d \in {"kinds", "columns"} THEN MaxCells ELSE MinCells

RecordCap(d) == IF d = "context" THEN MaxRecords ELSE 1

\* number of cells of the row that hold text
NonEmpty(row) == Cardinality({i \in 1..Len(row) : row[i] /= <<>>})

\* the buffer takes one fragment of any length, or more while it stays short
Fits(buf, data) == buf = <<>> \/ Len(buf) + Len(Strip(data)) <= MaxTextLen

Init ==
    /\ ParserInit
    /\ NoCalls
    /\ doc \in Classes
    /\ rate_str = <<>>
    /\ rate_out = Pending

Feeding == ~raised /\ Len(records) < RecordCap(doc)

StartTag ==
    /\ Feeding
    /\ \E tag \in Tags(doc), style \in Styles(doc) : handle_starttag(tag, style)
    /\ UNCHANGED <<doc, rate_str, rate_out, calls>>

EndTag ==
    /\ Feeding
    /\ \E tag \in Tags(doc) :
          /\ (tag = "td" /\ in_cell) => Len(current_row) < RowCells(doc)
          /\ handle_endtag(tag)
    /\ UNCHANGED <<doc, rate_str, rate_out, calls>>

Data ==
    /\ Feeding
    /\ \E data \in CellFrags(doc) \cup ParaFrags(doc) :
          /\ in_p => data \in ParaFrags(doc) /\ Fits(p_text, data)
          /\ in_cell =>
                /\ data \in CellFrags(doc)
                /\ Fits(cell_text, data)
                /\ Strip(data) \notin {<<>>, Nbsp} =>
                      /\ Len(current_row) \in TextCols(doc)
                      /\ cell_text = <<>> => NonEmpty(current_row) < MaxTextCells
          /\ handle_data(data)
    /\ UNCHANGED <<doc, rate_str, rate_out, calls>>

Next == StartTag \/ EndTag \/ Data

Spec == Init /\ [][Next]_vars

----------------------------------------------------------------------------
(* Two concurrent calls of extract_tables_from_html.  Each call constructs  *)
(* a TableExtractor and feeds it its own document (lines 209-210); the      *)
(* calls interleave token by token.  The handlers are written here as       *)
(* functions of the object they are called on.                              *)

\* TableExtractor(): the fields __init__ assigns (lines 68-86)
New ==
    [ records                |-> <<>>,
      current_year           |-> <<>>,
      current_admission_type |-> <<>>,
      in_table               |-> FALSE,
      in_tbody               |-> FALSE,
      in_row                 |-> FALSE,
      in_cell                |-> FALSE,
      in_span                |-> FALSE,
      in_p                   |-> FALSE,
      current_row            |-> <<>>,
      cell_text              |-> <<>>,
      p_text                 |-> <<>>,
      is_header_cell         |-> FALSE,
      raised                 |-> FALSE ]

\* the tokens feed() turns into handler calls
StartTok(tag, style) == [ev |-> "start", tag |-> tag, arg |-> style]
EndTok(tag)          == [ev |-> "end", tag |-> tag, arg |-> <<>>]
TextTok(data)        == [ev |-> "data", tag |-> "", arg |-> data]

\* self._process_row(): the objects it can leave
on_row(self) ==
    LET row  == self.current_row
        kind == RowKind(row)
    IN  CASE kind = "year" ->
                {[self EXCEPT !.current_year = RowYear(Join(row))]}
          [] kind = "type" ->
                {[self EXCEPT !.current_admission_type = Strip(FirstTypeCell(row))]}
          [] kind = "data" ->
                { IF rate = Raised
                  THEN [self EXCEPT !.raised = TRUE]
                  ELSE IF DepartmentOk(CellOr(row, 1))
                  THEN [self EXCEPT !.records =
                            Emit(self.records,
                                 MakeRecord(self.current_year,
                                            self.current_admission_type, row, rate))]
                  ELSE self
                  : rate \in parse_competition_rate(CellOr(row, 3)) }
          [] OTHER -> {self}

\* self.handle_starttag(tag, [("style", style)])
on_starttag(self, tag, style) ==
    IF tag = "table" THEN [self EXCEPT !.in_table = TRUE]
    ELSE IF tag = "tbody" THEN [self EXCEPT !.in_tbody = TRUE]
    ELSE IF tag = "tr"
    THEN [self EXCEPT !.in_row = TRUE, !.current_row = <<>>, !.cell_text = <<>>]
    ELSE IF tag = "td" /\ self.in_row
    THEN IF style = NoValue
         THEN [self EXCEPT !.in_cell = TRUE, !.cell_text = <<>>, !.raised = TRUE]
         ELSE [self EXCEPT !.in_cell = TRUE, !.cell_text = <<>>,
                           !.is_header_cell =
                                (Contains(style, StyleRgb) \/
                                 Contains(style, StyleBackground))]
    ELSE IF tag = "span" /\ self.in_cell THEN [self EXCEPT !.in_span = TRUE]
    ELSE IF tag = "p" THEN [self EXCEPT !.in_p = TRUE, !.p_text = <<>>]
    ELSE self

\* self.handle_endtag(tag): the objects it can leave
on_endtag(self, tag) ==
    IF tag = "table" THEN {[self EXCEPT !.in_table = FALSE]}
    ELSE IF tag = "tbody" THEN {[self EXCEPT !.in_tbody = FALSE]}
    ELSE IF tag = "tr" /\ self.in_row THEN on_row([self EXCEPT !.in_row = FALSE])
    ELSE IF tag = "td" /\ self.in_cell
    THEN {[self EXCEPT !.current_row =
                            Append(self.current_row, CollapseWs(Strip(self.cell_text))),
                       !.in_cell = FALSE,
                       !.is_header_cell = FALSE]}
    ELSE IF tag = "span" THEN {[self EXCEPT !.in_span = FALSE]}
    ELSE IF tag = "p"
    THEN {[self EXCEPT !.current_year =
                            IF self.p_text /= <<>> /\ ~self.in_table
                               /\ PYearMatch(self.p_text)
                            THEN PYear(self.p_text) ELSE self.current_year,
                       !.in_p = FALSE]}
    ELSE {self}

\* self.handle_data(data)
on_data(self, data) ==
    [self EXCEPT !.p_text = IF self.in_p THEN self.p_text \o Strip(data)
                            ELSE self.p_text,
                 !.cell_text =
                     IF self.in_cell /\ Strip(data) /= <<>> /\ Strip(data) /= Nbsp
                     THEN self.cell_text \o Strip(data) ELSE self.cell_text]

\* the objects the handler call of one token can leave
Feed(self, tok) ==
    CASE tok.ev = "start" -> {on_starttag(self, tok.tag, tok.arg)}
      [] tok.ev = "end"   -> on_endtag(self, tok.tag)
      [] tok.ev = "data"  -> {on_data(self, tok.arg)}

\* the variables of the extractor fed under Spec, as one object
Self ==
    [ records                |-> records,
      current_year           |-> current_year,
      current_admission_type |-> current_admission_type,
      in_table               |-> in_table,
      in_tbody               |-> in_tbody,
      in_row                 |-> in_row,
      in_cell                |-> in_cell,
      in_span                |-> in_span,
      in_p                   |-> in_p,
      current_row            |-> current_row,
      cell_text              |-> cell_text,
      p_text                 |-> p_text,
      is_header_cell         |-> is_header_cell,
      raised                 |-> raised ]

\* the tokens of a document of class d
Tokens(d) ==
    {StartTok(tag, style) : tag \in Tags(d), style \in Styles(d)}
        \cup {EndTok(tag) : tag \in Tags(d)}
        \cup {TextTok(data) : data \in CellFrags(d) \cup ParaFrags(d)}

\* Under Spec every step is the handler call of one token on Self.
HandlersAgree == [][\E tok \in Tokens(doc) : Self' \in Feed(Self, tok)]_vars

FragLeft  == <<"a", " ">>                                    \* "a "
FragRight == <<"b">>                                         \* "b"

\* <td style=...>text...</td>
Cell(style, texts) ==
    <<StartTok("td", style)>> \o [k \in 1..Len(texts) |-> TextTok(texts[k])]
        \o <<EndTok("td")>>

RECURSIVE Flatten(_)
Flatten(seqs) == IF seqs = <<>> THEN <<>> ELSE Head(seqs) \o Flatten(Tail(seqs))

\* <tr>cells...</tr>
Row(cells) == <<StartTok("tr", <<>>)>> \o Flatten(cells) \o <<EndTok("tr")>>

\* A marker row of 2024 and a data row; the cell-opens of the marker row
\* carry the style s1, those of the data row the style s2.
Page(s1, s2) ==
    Row(<<Cell(s1, <<FragY24>>)>>)
        \o Row(<<Cell(s2, <<FragA>>), Cell(s2, <<>>), Cell(s2, <<FragRate>>),
                 Cell(s2, <<>>), Cell(s2, <<>>), Cell(s2, <<>>)>>)

\* A paragraph announcing 2026, an admission-type row and a data row whose
\* first cell is "a <span>b</span>".
SplitPage ==
    <<StartTok("p", <<>>), TextTok(FragPY), EndTok("p")>>
        \o Row(<<Cell(<<>>, <<FragType>>)>>)
        \o Row(<<<<StartTok("td", <<>>), TextTok(FragLeft), StartTok("span", <<>>),
                   TextTok(FragRight), EndTok("span"), EndTok("td")>>,
                 Cell(<<>>, <<>>), Cell(<<>>, <<FragRate>>),
                 Cell(<<>>, <<>>), Cell(<<>>, <<>>), Cell(<<>>, <<>>)>>)

DocNames == {"plain", "styled", "bare", "split"}

Document(d) ==
    CASE d = "plain"  -> Page(<<>>, <<>>)
      [] d = "styled" -> Page(StyleBackground, StyleRgb)
      [] d = "bare"   -> Page(<<>>, NoValue)
      [] d = "split"  -> SplitPage

Callers == 1..2

\* every caller's TableExtractor is one and the same object
extractor_shared(i) == 1

\* parser = TableExtractor() (line 209): the object call i constructs and feeds
extractor(i) == i

\* return parser.records (line 211), with the context the object carries
Output(self) == <<self.records, self.current_year, self.current_admission_type>>

Result(i) == Output(inst[extractor(i)])

\* call i is over: its document is fed, or an exception ended feed()
Done(i) == pos[i] = Len(Document(docs[i])) \/ inst[extractor(i)].raised

CallsInit ==
    /\ ParserInit
    /\ doc = "none"
    /\ rate_str = <<>>
    /\ rate_out = Pending
    /\ docs \in [Callers -> DocNames]
    /\ pos = [i \in Callers |-> 0]
    /\ inst = [i \in Callers |-> New]

\* call i feeds the next token of its document to its extractor
FeedToken(i) ==
    /\ ~Done(i)
    /\ \E self \in Feed(inst[extractor(i)], Document(docs[i])[pos[i] + 1]) :
          inst' = [inst EXCEPT ![extractor(i)] = self]
    /\ pos' = [pos EXCEPT ![i] = @ + 1]
    /\ UNCHANGED <<docs, doc, rate_str, rate_out, parser>>

CallsNext == \E i \in Callers : FeedToken(i)

SpecCalls == CallsInit /\ [][CallsNext]_vars

----------------------------------------------------------------------------
(* Properties of the Rate Normalizer (checked under SpecRate)               *)

\* a decimal number: digits with at most one decimal point
IsDecimal(x) ==
    /\ x /= <<>>
    /\ \A i \in 1..Len(x) : IsDigit(x[i]) \/ x[i] = "."
    /\ \A i, j \in 1..Len(x) : (x[i] = "." /\ x[j] = ".") => i = j
    /\ \E i \in 1..Len(x) : IsDigit(x[i])

IsZeroDecimal(x) == IsDecimal(x) /\ \A i \in 1..Len(x) : IsDigit(x[i]) => x[i] = "0"

\* s is a:b with the colon at i
IsRatioAt(s, i) ==
    /\ s[i] = ":"
    /\ IsDecimal(SubSeq(s, 1, i - 1))
    /\ IsDecimal(SubSeq(s, i + 1, Len(s)))

ZeroRatio(s) ==
    \E i \in 1..Len(s) : IsRatioAt(s, i) /\ IsZeroDecimal(SubSeq(s, i + 1, Len(s)))

NonZeroRatio(s) ==
    \E i \in 1..Len(s) : IsRatioAt(s, i) /\ ~IsZeroDecimal(SubSeq(s, i + 1, Len(s)))

Blank(s) == \A i \in 1..Len(s) : IsSpace(s[i])

\* digits after the decimal point
FracDigits(x) == Cardinality({i \in 1..Len(x) : \E j \in 1..(i - 1) : x[j] = "."})

\* the value v is a multiple of 1/100 nearest to a / b
NearestHundredth(v, a, b) ==
    /\ v.kind = "value"
    /\ v.s <= 2
    /\ LET p == DigitsOf(a, 0) * Pow10(FracDigits(b))
           q == DigitsOf(b, 0) * Pow10(FracDigits(a))
           h == v.n * Pow10(2 - v.s)
       IN  2 * Abs(100 * p - h * q) <= q

\* C1: no error escapes the Rate Normalizer: whatever the string, the call
\* ends with a decimal value or with 'absent'.
C1_NoErrorEscapes == rate_out /= Raised

\* C2 as stated: the normalizer returns 'absent' for "0", for every a:b whose
\* b is zero, for the empty string and for every whitespace-only string.
C2_ZeroIsAbsent ==
    (rate_out /= Pending /\ (rate_str = <<"0">> \/ ZeroRatio(rate_str) \/ Blank(rate_str)))
        => rate_out = Absent

\* C2 amended: the normalizer returns 'absent' for every a:b whose b is zero,
\* for the empty string and for every whitespace-only string; for the bare
\* string "0" it returns the decimal value 0.
C2_ZeroDenominatorIsAbsent ==
    rate_out /= Pending =>
        /\ (ZeroRatio(rate_str) \/ Blank(rate_str)) => rate_out = Absent
        /\ rate_str = <<"0">> => rate_out = [kind |-> "value", n |-> 0, s |-> 0]

C2_Witness == rate_str = <<"5", ":", "0">> /\ rate_out = Absent

\* C3: for a string whose trimmed form is a:b, a and b decimal numbers and b
\* not zero, the normalizer returns a / b rounded to 2 fractional digits,
\* never 'absent'.
C3_RatioIsRounded ==
    LET t == Strip(rate_str) IN
    (rate_out /= Pending /\ NonZeroRatio(t)) =>
        \A i \in 1..Len(t) :
            IsRatioAt(t, i) =>
                NearestHundredth(rate_out, SubSeq(t, 1, i - 1), SubSeq(t, i + 1, Len(t)))

\* " 1:.15" gives 6.67
C3_Witness ==
    /\ rate_str = <<" ", "1", ":", ".", "1", "5">>
    /\ rate_out = [kind |-> "value", n |-> 667, s |-> 2]

----------------------------------------------------------------------------
(* Properties of the Table Extractor (checked under Spec)                   *)

\* the step is a row-close that acts: only `</tr>` inside a row clears in_row
RowClose == in_row /\ ~in_row'

\* the step is a row-open that arrives while a row is still open
RowReopen == in_row /\ in_row' /\ current_row /= <<>> /\ current_row' = <<>>

HasKeyword(row)    == \E kw \in header_keywords : Contains(Join(row), kw)
HasWarning(row)    == \E w \in warning_marks : Contains(Join(row), w)
HasYearMarker(row) == \E i \in 1..Len(Join(row)) : RowYearAt(Join(row), i)
HasTypeCell(row)   == \E i \in 1..Len(row) : Contains(row[i], JeonHyeong)

\* an admission-type header row
TypeHeaderRow(row) == ~HasYearMarker(row) /\ HasTypeCell(row)

\* at least 6 cells, a non-empty first cell, no marker and no skip rule
PlainDataRow(row) ==
    /\ Len(row) >= MinCells
    /\ row[1] /= <<>>
    /\ ~HasYearMarker(row) /\ ~HasTypeCell(row)
    /\ ~HasKeyword(row) /\ ~HasWarning(row)

\* the record the spec gives for a data row
PositionalRecord(row, rate) ==
    [ year             |-> current_year,
      admission_type   |-> current_admission_type,
      department       |-> row[1],
      quota            |-> row[2],
      competition_rate |-> rate,
      waitlist_rank    |-> row[4],
      cut_50           |-> row[5],
      cut_70           |-> row[6],
      subjects         |-> IF Len(row) >= 7 THEN row[7] ELSE <<>> ]

\* C4: the row-close of a row whose joined text contains a column-header
\* keyword appends no record, whatever its cells.
C4_HeaderRowNeverEmitted ==
    [][(RowClose /\ HasKeyword(current_row)) => records' = records]_vars

\* a closed row of 6 or more cells with a department and the keyword elsewhere
C4_Witness ==
    /\ ~in_row
    /\ Len(current_row) >= MinCells
    /\ current_row[1] = <<"A">>
    /\ HasKeyword(current_row)
    /\ records = <<>>

\* C5: the row-close of a row with at least 6 cells, a non-empty first cell
\* and no marker or skip rule appends exactly one record, built from the
\* carried-over context and the cells by position, the rate through the
\* normalizer.
C5_DataRowYieldsRecord ==
    [][(RowClose /\ PlainDataRow(current_row)) =>
          \E rate \in parse_competition_rate(current_row[3]) \ {Raised} :
              records' = Append(records, PositionalRecord(current_row, rate))]_vars

\* C6: current_year and current_admission_type start empty; the year is
\* changed only by the row-close of a year-marker row or by a paragraph-close
\* outside a table whose buffer matches the academic-year pattern, the
\* admission type only by the row-close of an admission-type header row.
C6_ContextFrame ==
    /\ current_year = <<>> /\ current_admission_type = <<>>
    /\ [][ /\ current_year' /= current_year =>
                \/ RowClose /\ HasYearMarker(current_row)
                \/ /\ ~RowClose
                   /\ ~in_table /\ PYearMatch(p_text)
                   /\ ~in_p' /\ p_text' = p_text
           /\ current_admission_type' /= current_admission_type =>
                RowClose /\ TypeHeaderRow(current_row) ]_vars

\* a column-header row closed after a data row: the context is still the
\* one the record got
C6_Witness ==
    /\ Len(records) = 1
    /\ ~in_row /\ HasKeyword(current_row)
    /\ current_year /= <<>> /\ current_year = records[1].year
    /\ current_admission_type /= <<>>
    /\ current_admission_type = records[1].admission_type

\* C7: the row-close of a row with a marker [YYYY학년도] sets current_year to
\* the four digits of the marker and appends no record; a record appended
\* later carries the current_year of its row-close.
C7_YearMarker ==
    [][ /\ (RowClose /\ HasYearMarker(current_row)) =>
              /\ \E i \in 1..Len(Join(current_row)) :
                    /\ RowYearAt(Join(current_row), i)
                    /\ current_year' = SubSeq(Join(current_row), i + 1, i + 4)
              /\ records' = records
        /\ records' /= records =>
              /\ Len(records') = Len(records) + 1
              /\ records'[Len(records')].year = current_year ]_vars

\* two data rows, each after a marker row of another year
C7_Witness ==
    /\ Len(records) = 2
    /\ records[1].year = <<"2", "0", "2", "4">>
    /\ records[2].year = <<"2", "0", "2", "5">>

\* C8: every record has a department that is non-empty after trimming and
\* comes from a row of at least 6 cells; the row-close of a row with fewer
\* than 6 cells or an empty first cell appends nothing and raises nothing.
C8_RecordsValid ==
    [][ /\ \A i \in 1..Len(records') : Strip(records'[i].department) /= <<>>
        /\ records' /= records => RowClose /\ Len(current_row) >= MinCells
        /\ (RowClose /\ (Len(current_row) < MinCells \/ CellOr(current_row, 1) = <<>>))
              => records' = records /\ ~raised' ]_vars

\* C9: a row of at least 6 closed cells with a non-empty first cell and no
\* marker or skip rule yields a record also when its row-close is missing
\* and the next row-open arrives.
C9_NoStructuralReject ==
    [][(RowReopen /\ PlainDataRow(current_row)
          /\ Raised \notin parse_competition_rate(current_row[3]))
          => Len(records') = Len(records) + 1]_vars

\* C10: the record sequence changes only at a row-close, which appends one
\* record at the end and leaves the earlier records as they were.
C10_AppendOnly ==
    [][ \/ records' = records
        \/ /\ RowClose
           /\ Len(records') = Len(records) + 1
           /\ SubSeq(records', 1, Len(records)) = records ]_vars

\* a second record appended behind a different first one
C10_Witness ==
    /\ Len(records) = 2
    /\ records[1].admission_type = <<>>
    /\ records[2].admission_type = <<"S", "jeon", "hyeong">>

\* the number of the three outputs of a row-close that the step changes
Changed ==
    Cardinality({k \in {"year", "type", "records"} :
                    \/ k = "year" /\ current_year' /= current_year
                    \/ k = "type" /\ current_admission_type' /= current_admission_type
                    \/ k = "records" /\ records' /= records})

\* C12: a row-close applies at most one rule, the first that matches in the
\* order year-marker, admission-type header, column-header, warning, data.  A
\* row with a year marker and a cell containing 전형 sets only current_year;
\* a row without a marker and with a cell containing 전형 that also holds a
\* column-header keyword or has 6 or more cells sets current_admission_type
\* and appends no record.
C12_FirstMatchWins ==
    [][ RowClose =>
          /\ Changed <= 1
          /\ (HasYearMarker(current_row) /\ HasTypeCell(current_row)) =>
                /\ \E i \in 1..Len(Join(current_row)) :
                      /\ RowYearAt(Join(current_row), i)
                      /\ current_year' = SubSeq(Join(current_row), i + 1, i + 4)
                /\ current_admission_type' = current_admission_type
          /\ ( /\ TypeHeaderRow(current_row)
               /\ HasKeyword(current_row) \/ Len(current_row) >= MinCells ) =>
                /\ \E i \in 1..Len(current_row) :
                      /\ Contains(current_row[i], JeonHyeong)
                      /\ current_admission_type' = Strip(current_row[i])
                /\ records' = records ]_vars

\* a closed row with a marker and a cell containing 전형: the year is set and
\* the admission type is still empty
C12_Witness ==
    /\ ~in_row
    /\ HasYearMarker(current_row) /\ HasTypeCell(current_row)
    /\ current_year = <<"2", "0", "2", "4">>
    /\ current_admission_type = <<>>

\* C13: the row-close of a row without a year marker in which a cell contains
\* 전형 sets current_admission_type to the trimmed text of the first such cell
\* in cell order, leaves current_year unchanged and appends no record.
C13_FirstTypeCell ==
    [][ (RowClose /\ TypeHeaderRow(current_row)) =>
          /\ \E i \in 1..Len(current_row) :
                /\ Contains(current_row[i], JeonHyeong)
                /\ \A j \in 1..(i - 1) : ~Contains(current_row[j], JeonHyeong)
                /\ current_admission_type' = Strip(current_row[i])
          /\ current_year' = current_year
          /\ records' = records ]_vars

\* a closed row naming S전형 and then K전형: the first one is taken
C13_Witness ==
    /\ ~in_row
    /\ Len(current_row) >= 2
    /\ current_row[1] = <<"S", "jeon", "hyeong">>
    /\ current_row[2] = <<"K", "jeon", "hyeong">>
    /\ current_admission_type = <<"S", "jeon", "hyeong">>

\* C15: inside a table the paragraph buffer takes no text (there only a
\* paragraph-open, which empties it, changes it); a step that is not a
\* row-close changes current_year only outside a table and with a buffer that
\* matches the academic-year pattern, and never inside a table.
C15_NoTableTextInParagraph ==
    [][ /\ (in_table /\ p_text' /= p_text) => p_text' = <<>>
        /\ (~RowClose /\ current_year' /= current_year) =>
              ~in_table /\ PYearMatch(p_text) ]_vars

\* C17: in every reachable state in_cell holds only while in_row holds, so
\* the cell buffer and the row accumulator grow only inside an open row.
C17_CellInsideRow ==
    /\ in_cell => in_row
    /\ [][ (cell_text' /= cell_text /\ cell_text' /= <<>>) \/
           (Len(current_row') > Len(current_row)) => in_row ]_vars

IsYearText(y) == y = <<>> \/ (Len(y) = 4 /\ \A k \in 1..4 : IsDigit(y[k]))

\* C18: in every reachable state current_year is empty or exactly four
\* decimal digits, and so is the year of every record.
C18_YearIsFourDigits ==
    /\ IsYearText(current_year)
    /\ \A i \in 1..Len(records) : IsYearText(records[i].year)

\* a record of 2024 and the marker of 2025 read after it
C18_Witness ==
    /\ Len(records) = 1
    /\ records[1].year = <<"2", "0", "2", "4">>
    /\ current_year = <<"2", "0", "2", "5">>

----------------------------------------------------------------------------
(* Properties of concurrent calls (checked under SpecCalls)                 *)

\* the objects a new extractor can be in after the first n tokens of
\* document d, fed to it alone
RECURSIVE Alone(_, _)
Alone(d, n) ==
    IF n = 0 THEN {New}
    ELSE UNION {Feed(self, Document(d)[n]) :
                    self \in {t \in Alone(d, n - 1) : ~t.raised}}

\* the tokens call i has fed
Fed(i) == SubSeq(Document(docs[i]), 1, pos[i])

\* the unmodified text received since the last cell-open of toks
RECURSIVE RawSinceCellOpen(_)
RawSinceCellOpen(toks) ==
    IF toks = <<>> THEN <<>>
    ELSE LET t == toks[Len(toks)]
         IN  IF t.ev = "start" /\ t.tag = "td" THEN <<>>
             ELSE RawSinceCellOpen(SubSeq(toks, 1, Len(toks) - 1))
                      \o (IF t.ev = "data" THEN t.arg ELSE <<>>)

\* the two documents are the same events but for the styles of cell-opens
SameButStyles(a, b) ==
    /\ Len(a) = Len(b)
    /\ \A k \in 1..Len(a) :
          \/ a[k] = b[k]
          \/ a[k].ev = "start" /\ b[k].ev = "start" /\ a[k].tag = "td" /\ b[k].tag = "td"

\* C11: two extractors, each fed its own document, share no state: in every
\* interleaving of their token events each has, at every point and so at its
\* end, the records and the context it has when fed the same tokens alone.
C11_CallsIndependent ==
    \A i \in Callers :
        \E self \in Alone(docs[i], pos[i]) : Result(i) = Output(self)

\* both calls are over, each with the record of its own document
C11_Witness ==
    /\ docs[1] = "plain" /\ docs[2] = "split"
    /\ Done(1) /\ Done(2)
    /\ Len(inst[1].records) = 1 /\ Len(inst[2].records) = 1
    /\ inst[1].records[1].year = <<"2", "0", "2", "4">>
    /\ inst[2].records[1].year = <<"2", "0", "2", "6">>

\* C14: the cell a cell-close appends to the row accumulator is the trim,
\* with every whitespace run collapsed to one space, of the concatenation of
\* the unmodified text fragments received since the cell-open.
C14_RawCellText ==
    [][ \A i \in Callers :
          ( /\ pos'[i] = pos[i] + 1
            /\ Document(docs[i])[pos'[i]] = EndTok("td")
            /\ inst[extractor(i)].in_cell ) =>
              inst'[extractor(i)].current_row =
                  Append(inst[extractor(i)].current_row,
                         CollapseWs(Strip(RawSinceCellOpen(Fed(i))))) ]_vars

\* C16: two runs over documents that differ only in the style attributes of
\* their cell-opens end with the same records, current_year and
\* current_admission_type.
C16_StyleBlind ==
    ( /\ SameButStyles(Document(docs[1]), Document(docs[2]))
      /\ Done(1) /\ Done(2) ) => Result(1) = Result(2)

=============================================================================
